---- MODULE Spec2Model ----
(***************************************************************************)
(* State-machine model of src/app.py: the EBD record-keeping API.          *)
(* Every route handler is one action; the relational store is modelled by  *)
(* the four tables with the constraints the models declare (primary keys   *)
(* from sequences, UNIQUE, NOT NULL, FOREIGN KEY, the status enum).        *)
(* Time is counted in ticks of half an hour.                               *)
(***************************************************************************)
EXTENDS Integers, Sequences, FiniteSets, TLC

VARIABLES
    users,        \* table users: set of rows [id, username, password_hash]
    userSeq,      \* last value drawn from the users id sequence
    inflight,     \* per worker: the /register request between its check and its commit
    issued,       \* history: every token a login returned, with identity and time
    clock,        \* current time, in ticks
    classes,      \* table classes: rows [id, nome, professor, updated_at]
    classeSeq,    \* last value drawn from the classes id sequence
    alunos,       \* table alunos
    alunoSeq,
    frequencias,  \* table frequencias
    freqSeq,
    audit,        \* history: the class ids POST /classes returned and DELETE removed
    last          \* the response the last step sent, with a summary of its request

vars == <<users, userSeq, inflight, issued, clock, classes, classeSeq,
          alunos, alunoSeq, frequencias, freqSeq, audit, last>>

authVars == <<users, userSeq, inflight, issued>>
domainVars == <<classes, classeSeq, alunos, alunoSeq, frequencias, freqSeq, audit>>

(***************************************************************************)
(* Bounds of the model.                                                    *)
(***************************************************************************)
MaxClock == 3        \* ticks the clock may advance
MaxUserId == 3       \* values the users id sequence may hand out
MaxTokens == 1       \* logins that may succeed
MaxRows == 3         \* ids the three domain sequences may hand out in total

\* timedelta(hours=1) in ticks of half an hour
ExpiresDelta == 2

Workers == {1, 2}
Idle == [username |-> "-", password |-> "-"]

(***************************************************************************)
(* Password hashing (werkzeug.security).                                   *)
(***************************************************************************)
generate_password_hash(password) == <<"hash", password>>

check_password_hash(pwhash, password) == pwhash = <<"hash", password>>

(***************************************************************************)
(* Session tokens (flask_jwt_extended).  A bearer token is absent, a text  *)
(* that is no JWT, or a JWT carrying a subject, an expiry and the key that *)
(* signed it.                                                              *)
(***************************************************************************)
JwtSecretKey == "JWT_SECRET_KEY"

NoToken == [kind |-> "none", sub |-> 0, exp |-> 0, key |-> "-"]
Garbage == [kind |-> "garbage", sub |-> 0, exp |-> 0, key |-> "-"]

\* faulty variant: expires_delta left out, the token lives half an hour less
create_access_token_short(identity, now) ==
    [kind |-> "jwt", sub |-> identity, exp |-> now + ExpiresDelta - 1, key |-> JwtSecretKey]

create_access_token(identity, now) ==
    [kind |-> "jwt", sub |-> identity, exp |-> now + ExpiresDelta, key |-> JwtSecretKey]

\* jwt_required(): the decorator's verification and the library's default
\* error responses (no loader is overridden by the application).
jwt_required(tk, now) ==
    IF tk.kind = "none"
      THEN [ok |-> FALSE, status |-> 401, msg |-> "Missing Authorization Header", identity |-> 0]
    ELSE IF tk.kind = "garbage"
      THEN [ok |-> FALSE, status |-> 422, msg |-> "Not enough segments", identity |-> 0]
    ELSE IF tk.key # JwtSecretKey
      THEN [ok |-> FALSE, status |-> 422, msg |-> "Signature verification failed", identity |-> 0]
    ELSE IF tk.exp <= now
      THEN [ok |-> FALSE, status |-> 401, msg |-> "Token has expired", identity |-> 0]
    ELSE [ok |-> TRUE, status |-> 200, msg |-> "", identity |-> tk.sub]

\* How the request's token fails, read off the token itself.
TokenFault(tk, now) ==
    IF tk.kind = "none" THEN "missing"
    ELSE IF tk.kind = "garbage" THEN "malformed"
    ELSE IF tk.key # JwtSecretKey THEN "badsig"
    ELSE IF tk.exp <= now THEN "expired"
    ELSE "none"

\* Tokens a client can present: none, a non-JWT text, a JWT signed with another
\* key, and the tokens logins have returned.
ForgedTokens == {[kind |-> "jwt", sub |-> 1, exp |-> MaxClock + ExpiresDelta + 1, key |-> "attacker"]}

BadTokens == {NoToken, Garbage} \cup ForgedTokens

Presentable == BadTokens \cup {i.token : i \in issued}

(***************************************************************************)
(* Responses.                                                              *)
(***************************************************************************)
Resp(op, status, msg, rows, fault, id, has) ==
    [op |-> op, status |-> status, msg |-> msg, rows |-> rows,
     fault |-> fault, id |-> id, has |-> has, fetched |-> <<>>, list |-> <<>>]

NoResp == Resp("none", 0, "", {}, "none", 0, {})

\* The rejection of a request by jwt_required(); the handler has not run.
Reject(op, tk, id, has) ==
    LET auth == jwt_required(tk, clock) IN
    Resp(op, auth.status, auth.msg, {}, TokenFault(tk, clock), 0, {})

(***************************************************************************)
(* Init                                                                    *)
(***************************************************************************)
Init ==
    /\ users = {}
    /\ userSeq = 0
    /\ inflight = [w \in Workers |-> Idle]
    /\ issued = {}
    /\ clock = 0
    /\ classes = {}
    /\ classeSeq = 0
    /\ alunos = {}
    /\ alunoSeq = 0
    /\ frequencias = {}
    /\ freqSeq = 0
    /\ audit = [created |-> {}, deleted |-> {}]
    /\ last = NoResp

\* Time passes; no response is sent.
Tick ==
    /\ clock < MaxClock
    /\ clock' = clock + 1
    /\ last' = NoResp
    /\ UNCHANGED <<authVars, domainVars>>

(***************************************************************************)
(* POST /register, lines 144-154.  The handler runs in a worker; between   *)
(* its uniqueness query (line 148) and its commit (line 153) other workers *)
(* may run.                                                                *)
(***************************************************************************)
UserByUsername(username) == {u \in users : u.username = username}

RegisterMissing(data) == data.username = "" \/ data.password = ""

\* lines 145-149: validation and the uniqueness query
RegisterBegin(w, data) ==
    /\ inflight[w] = Idle
    /\ IF RegisterMissing(data)
         THEN /\ last' = Resp("register", 400, "Username e password sao obrigatorios",
                              {}, "none", 0, {data.username})
              /\ UNCHANGED inflight
       ELSE IF UserByUsername(data.username) # {}
         THEN /\ last' = Resp("register", 400, "Username ja existe",
                              {}, "none", 0, {data.username})
              /\ UNCHANGED inflight
       ELSE /\ inflight' = [inflight EXCEPT ![w] = data]
            /\ last' = NoResp
    /\ UNCHANGED <<users, userSeq, issued, clock, domainVars>>

\* lines 150-154: INSERT and commit; the UNIQUE constraint of line 34 makes
\* the commit raise when the username was stored meanwhile, and the
\* exception is handled nowhere.
RegisterEnd(w) ==
    /\ inflight[w] # Idle
    /\ userSeq < MaxUserId
    /\ LET data == inflight[w]
           id == userSeq + 1 IN
       /\ userSeq' = id
       /\ inflight' = [inflight EXCEPT ![w] = Idle]
       /\ IF UserByUsername(data.username) # {}
            THEN /\ last' = Resp("register", 500, "Internal Server Error",
                                 {}, "none", 0, {data.username})
                 /\ UNCHANGED users
          ELSE /\ users' = users \cup
                     {[id |-> id, username |-> data.username,
                       password_hash |-> generate_password_hash(data.password)]}
               /\ last' = Resp("register", 201, "", {[id |-> id, username |-> data.username]},
                               "none", id, {data.username})
    /\ UNCHANGED <<issued, clock, domainVars>>

(***************************************************************************)
(* POST /login, lines 170-178                                              *)
(***************************************************************************)
Login(data) ==
    /\ Cardinality(issued) < MaxTokens
    /\ IF RegisterMissing(data)
         THEN /\ last' = Resp("login", 400, "Username e password sao obrigatorios",
                              {}, "none", 0, {})
              /\ UNCHANGED issued
       ELSE LET found == {u \in UserByUsername(data.username) :
                             check_password_hash(u.password_hash, data.password)} IN
            IF found # {}
              THEN LET user == CHOOSE u \in found : TRUE
                       token == create_access_token(user.id, clock) IN
                   /\ issued' = issued \cup
                          {[token |-> token, identity |-> user.id, at |-> clock]}
                   /\ last' = Resp("login", 200, "access_token", {}, "none", user.id, {})
            ELSE /\ last' = Resp("login", 401, "Credenciais invalidas", {}, "none", 0, {})
                 /\ UNCHANGED issued
    /\ UNCHANGED <<users, userSeq, inflight, clock, domainVars>>

(***************************************************************************)
(* GET /protected, lines 180-184                                           *)
(***************************************************************************)
Protected(tk) ==
    /\ LET auth == jwt_required(tk, clock) IN
       IF ~auth.ok
         THEN last' = Reject("protected", tk, 0, {})
       ELSE last' = Resp("protected", 200, "Usuario logado", {}, "none", auth.identity, {})
    /\ UNCHANGED <<authVars, clock, domainVars>>

(***************************************************************************)
(* Request bodies.  request.get_json() yields a JSON object, modelled by   *)
(* the set `has` of its keys and the value of each key (a fixed filler     *)
(* stands for the value of a key it lacks), or a JSON value that is no     *)
(* object (a number).                                                      *)
(***************************************************************************)
Filler == "-"

IsObject(data) == data.kind = "object"

\* the summary of a body kept with the response: its keys, or that it has none
NotAnObject == "<number>"

Keys(data) == IF IsObject(data) THEN data.has ELSE {NotAnObject}

\* `key in data`
In(key, data) == key \in data.has

\* `not data.get(key)`: the key is absent or its value is empty
NotGet(key, data) == key \notin data.has \/ data[key] = ""

\* A query without ORDER BY returns the rows in an order the store chooses.
Orderings(rows) ==
    {s \in [1..Cardinality(rows) -> rows] : \A i, j \in DOMAIN s : i # j => s[i] # s[j]}

(***************************************************************************)
(* The store: constraints declared by the models, checked at commit.  A    *)
(* violated constraint raises IntegrityError/DataError out of commit(),    *)
(* which no handler catches: the response is 500 and nothing is written.   *)
(* db.session is removed when the request ends, which rolls back whatever  *)
(* was assigned and not committed.                                         *)
(***************************************************************************)
\* faulty variant: what was assigned is flushed when the request ends
SessionRemoveFlushes(persisted, dirty) == dirty

\* line 23: the scoped session is removed at the end of every request
SessionRemove(persisted, dirty) == persisted

\* faulty variant: the delete is never committed
SessionDeleteUncommitted(table, rows) == table

\* db.session.delete(row) and db.session.commit(), lines 221-222, 275-276, 342-343
SessionDelete(table, rows) == table \ rows

\* line 53: classes.nome is UNIQUE
ClasseConstraintsOk(row, others) == \A c \in others : c.nome # row.nome

\* lines 72 and 88: classes.id is referenced by alunos and frequencias
ClasseDeletable(id) ==
    /\ \A a \in alunos : a.classe_id # id
    /\ \A f \in frequencias : f.classe_id # id

StatusAluno == {"MATRICULADO", "DESMATRICULADO"}

\* faulty variant: alunos.classe_id declared without its foreign key
AlunoConstraintsNoForeignKey(row) == row.status \in StatusAluno

\* lines 70-72: the status enum and the foreign key to classes
AlunoConstraintsOk(row) ==
    /\ row.status \in StatusAluno
    /\ \E c \in classes : c.id = row.classe_id

\* line 88: the foreign key to classes
FrequenciaConstraintsOk(row) == \E c \in classes : c.id = row.classe_id

\* onupdate=datetime.utcnow: the UPDATE that a changed row causes stamps it
Stamp(old, new, now) == IF new = old THEN old ELSE [new EXCEPT !.updated_at = now]

\* bound of the model: the sequences stop handing out ids
RowsLeft == classeSeq + alunoSeq + freqSeq < MaxRows

ServerError == "Internal Server Error"
NotFound == "Not Found"

(***************************************************************************)
(* Classes, lines 50-63 and 188-223                                        *)
(***************************************************************************)
ClasseToDict(c) == [id |-> c.id, nome |-> c.nome, professor |-> c.professor]

ClasseById(id) == {c \in classes : c.id = id}

\* GET /classes, lines 190-192
ListarClasses(tk) ==
    /\ IF ~jwt_required(tk, clock).ok
         THEN last' = Reject("listar_classes", tk, 0, {})
       ELSE last' = Resp("listar_classes", 200, "", {ClasseToDict(c) : c \in classes},
                         "none", 0, {})
    /\ UNCHANGED <<authVars, clock, domainVars>>

\* faulty variant: the presence of professor is not checked
ClasseMissingNomeOnly(data) == data.has = {} \/ NotGet("nome", data)

\* line 198
ClasseMissing(data) == data.has = {} \/ NotGet("nome", data) \/ NotGet("professor", data)

\* POST /classes, lines 196-203
CriarClasse(tk, data) ==
    /\ IF ~jwt_required(tk, clock).ok
         THEN /\ last' = Reject("criar_classe", tk, 0, Keys(data))
              /\ UNCHANGED <<classes, classeSeq, audit>>
       ELSE IF ~IsObject(data)
         THEN \* data.get on a number raises AttributeError
              /\ last' = Resp("criar_classe", 500, ServerError, {}, "none", 0, Keys(data))
              /\ UNCHANGED <<classes, classeSeq, audit>>
       ELSE IF ClasseMissing(data)
         THEN /\ last' = Resp("criar_classe", 400, "Campos nome e professor sao obrigatorios",
                              {}, "none", 0, Keys(data))
              /\ UNCHANGED <<classes, classeSeq, audit>>
       ELSE LET id == classeSeq + 1
                nova_classe == [id |-> id, nome |-> data.nome, professor |-> data.professor,
                                updated_at |-> clock] IN
            /\ RowsLeft
            /\ classeSeq' = id
            /\ IF ClasseConstraintsOk(nova_classe, classes)
                 THEN /\ classes' = classes \cup {nova_classe}
                      /\ audit' = [audit EXCEPT !.created = @ \cup {id}]
                      /\ last' = Resp("criar_classe", 201, "", {ClasseToDict(nova_classe)},
                                      "none", id, Keys(data))
               ELSE /\ classes' = classes
                    /\ audit' = audit
                    /\ last' = Resp("criar_classe", 500, ServerError, {}, "none", 0, Keys(data))
    /\ UNCHANGED <<authVars, clock, alunos, alunoSeq, frequencias, freqSeq>>

\* faulty variant: professor is assigned whether the body holds it or not
ClasseAssignAlways(classe, data) ==
    LET c1 == IF In("nome", data) THEN [classe EXCEPT !.nome = data.nome] ELSE classe
    IN [c1 EXCEPT !.professor = data.professor]

\* lines 210-213: the assignments of the fields the body holds
ClasseAssign(classe, data) ==
    LET c1 == IF In("nome", data) THEN [classe EXCEPT !.nome = data.nome] ELSE classe
        c2 == IF In("professor", data) THEN [c1 EXCEPT !.professor = data.professor] ELSE c1
    IN c2

\* PUT /classes/<id>, lines 207-215
AtualizarClasse(tk, id, data) ==
    /\ IF ~jwt_required(tk, clock).ok
         THEN /\ last' = Reject("atualizar_classe", tk, id, Keys(data))
              /\ UNCHANGED classes
       ELSE IF ClasseById(id) = {}
         THEN /\ last' = Resp("atualizar_classe", 404, NotFound, {}, "none", id, Keys(data))
              /\ UNCHANGED classes
       ELSE IF ~IsObject(data)
         THEN \* `'nome' in data` on a number raises TypeError
              /\ last' = Resp("atualizar_classe", 500, ServerError, {}, "none", id, Keys(data))
              /\ UNCHANGED classes
       ELSE LET classe == CHOOSE c \in ClasseById(id) : TRUE
                dirty == ClasseAssign(classe, data)
                row == Stamp(classe, dirty, clock) IN
            IF ClasseConstraintsOk(row, classes \ {classe})
              THEN /\ classes' = (classes \ {classe}) \cup {row}
                   /\ last' = Resp("atualizar_classe", 200, "", {ClasseToDict(row)},
                                   "none", id, Keys(data))
            ELSE /\ classes' = (classes \ {classe}) \cup {SessionRemove(classe, dirty)}
                 /\ last' = Resp("atualizar_classe", 500, ServerError, {}, "none", id, Keys(data))
    /\ UNCHANGED <<authVars, clock, classeSeq, audit, alunos, alunoSeq, frequencias, freqSeq>>

\* DELETE /classes/<id>, lines 219-223
DeletarClasse(tk, id) ==
    /\ IF ~jwt_required(tk, clock).ok
         THEN /\ last' = Reject("deletar_classe", tk, id, {})
              /\ UNCHANGED <<classes, audit>>
       ELSE IF ClasseById(id) = {}
         THEN /\ last' = Resp("deletar_classe", 404, NotFound, {}, "none", id, {})
              /\ UNCHANGED <<classes, audit>>
       ELSE IF ClasseDeletable(id)
         THEN /\ classes' = SessionDelete(classes, ClasseById(id))
              /\ audit' = [audit EXCEPT !.deleted = @ \cup {id}]
              /\ last' = Resp("deletar_classe", 200, "Classe deletada", {}, "none", id, {})
       ELSE /\ classes' = classes
            /\ audit' = audit
            /\ last' = Resp("deletar_classe", 500, ServerError, {}, "none", id, {})
    /\ UNCHANGED <<authVars, clock, classeSeq, alunos, alunoSeq, frequencias, freqSeq>>

NonObject == [kind |-> "number", has |-> {}]

ClasseBody(has, nome, professor) ==
    [kind |-> "object", has |-> has,
     nome |-> IF "nome" \in has THEN nome ELSE Filler,
     professor |-> IF "professor" \in has THEN professor ELSE Filler]

(***************************************************************************)
(* Dates.  A date text is modelled by its layout and the numbers it holds; *)
(* datetime.strptime(text, '%Y-%m-%d') accepts the layout year-month-day   *)
(* with a day the calendar has, and strftime('%Y-%m-%d') writes a date in  *)
(* that layout.                                                            *)
(***************************************************************************)
IsoLayout == "%Y-%m-%d"

DateText(layout, y, m, d) == [layout |-> layout, y |-> y, m |-> m, d |-> d]

NoText == DateText(Filler, 0, 0, 0)

DaysIn(y, m) ==
    IF m \in {4, 6, 9, 11} THEN 30
    ELSE IF m = 2 THEN (IF y % 4 = 0 /\ (y % 100 # 0 \/ y % 400 = 0) THEN 29 ELSE 28)
    ELSE 31

strptime(text) ==
    IF /\ text.layout = IsoLayout
       /\ text.m \in 1..12
       /\ text.d \in 1..DaysIn(text.y, text.m)
      THEN [ok |-> TRUE, value |-> [y |-> text.y, m |-> text.m, d |-> text.d]]
    ELSE [ok |-> FALSE, value |-> [y |-> 0, m |-> 0, d |-> 0]]

strftime(date) == DateText(IsoLayout, date.y, date.m, date.d)

DateLeq(a, b) ==
    \/ a.y < b.y
    \/ a.y = b.y /\ a.m < b.m
    \/ a.y = b.y /\ a.m = b.m /\ a.d <= b.d

DateError == "Formato de data invalido"

(***************************************************************************)
(* Alunos, lines 65-83 and 227-277                                         *)
(***************************************************************************)
AlunoToDict(a) ==
    [id |-> a.id, nome |-> a.nome, data_nascimento |-> strftime(a.data_nascimento),
     status |-> a.status, classe_id |-> a.classe_id]

AlunoById(id) == {a \in alunos : a.id = id}

\* GET /alunos, lines 229-231
ListarAlunos(tk) ==
    /\ IF ~jwt_required(tk, clock).ok
         THEN last' = Reject("listar_alunos", tk, 0, {})
       ELSE last' = Resp("listar_alunos", 200, "", {AlunoToDict(a) : a \in alunos},
                         "none", 0, {})
    /\ UNCHANGED <<authVars, clock, domainVars>>

\* line 237
AlunoRequiredFields == {"nome", "data_nascimento", "classe_id"}

\* POST /alunos, lines 235-250
CriarAluno(tk, data) ==
    /\ IF ~jwt_required(tk, clock).ok
         THEN /\ last' = Reject("criar_aluno", tk, 0, Keys(data))
              /\ UNCHANGED <<alunos, alunoSeq>>
       ELSE IF ~IsObject(data)
         THEN \* `field in data` on a number raises TypeError
              /\ last' = Resp("criar_aluno", 500, ServerError, {}, "none", 0, Keys(data))
              /\ UNCHANGED <<alunos, alunoSeq>>
       ELSE IF ~(\A field \in AlunoRequiredFields : In(field, data))
         THEN /\ last' = Resp("criar_aluno", 400, "Campos obrigatorios ausentes",
                              {}, "none", 0, Keys(data))
              /\ UNCHANGED <<alunos, alunoSeq>>
       ELSE IF ~strptime(data.data_nascimento).ok
         THEN /\ last' = Resp("criar_aluno", 400, DateError, {}, "none", 0, Keys(data))
              /\ UNCHANGED <<alunos, alunoSeq>>
       ELSE LET id == alunoSeq + 1
                novo_aluno == [id |-> id, nome |-> data.nome,
                               data_nascimento |-> strptime(data.data_nascimento).value,
                               status |-> "MATRICULADO", classe_id |-> data.classe_id,
                               updated_at |-> clock] IN
            /\ RowsLeft
            /\ alunoSeq' = id
            /\ IF AlunoConstraintsOk(novo_aluno)
                 THEN /\ alunos' = alunos \cup {novo_aluno}
                      /\ last' = Resp("criar_aluno", 201, "", {AlunoToDict(novo_aluno)},
                                      "none", id, Keys(data))
               ELSE /\ alunos' = alunos
                    /\ last' = Resp("criar_aluno", 500, ServerError, {}, "none", 0, Keys(data))
    /\ UNCHANGED <<authVars, clock, classes, classeSeq, audit, frequencias, freqSeq>>

\* lines 257-258: assigned before the date is parsed
AlunoAssignBefore(aluno, data) ==
    IF In("nome", data) THEN [aluno EXCEPT !.nome = data.nome] ELSE aluno

\* lines 259-267, once the date has parsed
AlunoAssignRest(aluno, data) ==
    LET a1 == IF In("data_nascimento", data)
                THEN [aluno EXCEPT !.data_nascimento = strptime(data.data_nascimento).value]
                ELSE aluno
        a2 == IF In("classe_id", data) THEN [a1 EXCEPT !.classe_id = data.classe_id] ELSE a1
        a3 == IF In("status", data) THEN [a2 EXCEPT !.status = data.status] ELSE a2
    IN a3

\* PUT /alunos/<id>, lines 254-269
AtualizarAluno(tk, id, data) ==
    /\ IF ~jwt_required(tk, clock).ok
         THEN /\ last' = Reject("atualizar_aluno", tk, id, Keys(data))
              /\ UNCHANGED alunos
       ELSE IF AlunoById(id) = {}
         THEN /\ last' = Resp("atualizar_aluno", 404, NotFound, {}, "none", id, Keys(data))
              /\ UNCHANGED alunos
       ELSE IF ~IsObject(data)
         THEN /\ last' = Resp("atualizar_aluno", 500, ServerError, {}, "none", id, Keys(data))
              /\ UNCHANGED alunos
       ELSE LET aluno == CHOOSE a \in AlunoById(id) : TRUE
                before == AlunoAssignBefore(aluno, data) IN
            IF In("data_nascimento", data) /\ ~strptime(data.data_nascimento).ok
              THEN \* line 263 returns without a commit
                   /\ alunos' = (alunos \ {aluno}) \cup {SessionRemove(aluno, before)}
                   /\ last' = Resp("atualizar_aluno", 400, DateError, {}, "none", id, Keys(data))
            ELSE LET dirty == AlunoAssignRest(before, data)
                     row == Stamp(aluno, dirty, clock) IN
                 IF AlunoConstraintsOk(row)
                   THEN /\ alunos' = (alunos \ {aluno}) \cup {row}
                        /\ last' = Resp("atualizar_aluno", 200, "", {AlunoToDict(row)},
                                        "none", id, Keys(data))
                 ELSE /\ alunos' = (alunos \ {aluno}) \cup {SessionRemove(aluno, dirty)}
                      /\ last' = Resp("atualizar_aluno", 500, ServerError, {}, "none", id,
                                      Keys(data))
    /\ UNCHANGED <<authVars, clock, classes, classeSeq, audit, alunoSeq, frequencias, freqSeq>>

\* DELETE /alunos/<id>, lines 273-277
DeletarAluno(tk, id) ==
    /\ IF ~jwt_required(tk, clock).ok
         THEN /\ last' = Reject("deletar_aluno", tk, id, {})
              /\ UNCHANGED alunos
       ELSE IF AlunoById(id) = {}
         THEN /\ last' = Resp("deletar_aluno", 404, NotFound, {}, "none", id, {})
              /\ UNCHANGED alunos
       ELSE /\ alunos' = SessionDelete(alunos, AlunoById(id))
            /\ last' = Resp("deletar_aluno", 200, "Aluno deletado", {}, "none", id, {})
    /\ UNCHANGED <<authVars, clock, classes, classeSeq, audit, alunoSeq, frequencias, freqSeq>>

AlunoBody(has, nome, data_nascimento, classe_id, status) ==
    [kind |-> "object", has |-> has,
     nome |-> IF "nome" \in has THEN nome ELSE Filler,
     data_nascimento |-> IF "data_nascimento" \in has THEN data_nascimento ELSE NoText,
     classe_id |-> IF "classe_id" \in has THEN classe_id ELSE 0,
     status |-> IF "status" \in has THEN status ELSE Filler]

(***************************************************************************)
(* Frequencias, lines 85-110 and 281-344.  presencas is a JSON column: a   *)
(* list of entries, each a JSON object that may hold the key aluno_id, or  *)
(* a JSON object that is no list.                                          *)
(***************************************************************************)
Presenca(has_id, aluno_id, presente) ==
    [has_id |-> has_id, aluno_id |-> IF has_id THEN aluno_id ELSE 0, presente |-> presente]

PresencaList(items) == [kind |-> "list", items |-> items]

PresencaDict == [kind |-> "dict", items |-> <<>>]

FrequenciaToDict(f) ==
    [id |-> f.id, classe_id |-> f.classe_id, data |-> strftime(f.data),
     total_biblia |-> f.total_biblia, total_present |-> f.total_present,
     total_absent |-> f.total_absent, total_visitors |-> f.total_visitors,
     total_general |-> f.total_general, presencas |-> f.presencas]

FrequenciaById(id) == {f \in frequencias : f.id = id}

\* GET /frequencias, lines 283-285
ListarFrequencias(tk) ==
    /\ IF ~jwt_required(tk, clock).ok
         THEN last' = Reject("listar_frequencias", tk, 0, {})
       ELSE last' = Resp("listar_frequencias", 200, "",
                         {FrequenciaToDict(f) : f \in frequencias}, "none", 0, {})
    /\ UNCHANGED <<authVars, clock, domainVars>>

\* line 291
FrequenciaRequiredFields == {"classe_id", "data"}

\* data.get(key, default), lines 298-303
GetOr(data, key, default) == IF In(key, data) THEN data[key] ELSE default

\* POST /frequencias, lines 289-309
RegistrarFrequencia(tk, data) ==
    /\ IF ~jwt_required(tk, clock).ok
         THEN /\ last' = Reject("registrar_frequencia", tk, 0, Keys(data))
              /\ UNCHANGED <<frequencias, freqSeq>>
       ELSE IF ~IsObject(data)
         THEN /\ last' = Resp("registrar_frequencia", 500, ServerError, {}, "none", 0, Keys(data))
              /\ UNCHANGED <<frequencias, freqSeq>>
       ELSE IF ~(\A field \in FrequenciaRequiredFields : In(field, data))
         THEN /\ last' = Resp("registrar_frequencia", 400,
                              "Campos classe_id e data sao obrigatorios", {}, "none", 0,
                              Keys(data))
              /\ UNCHANGED <<frequencias, freqSeq>>
       ELSE IF ~strptime(data.data).ok
         THEN /\ last' = Resp("registrar_frequencia", 400, DateError, {}, "none", 0, Keys(data))
              /\ UNCHANGED <<frequencias, freqSeq>>
       ELSE LET id == freqSeq + 1
                nova_frequencia ==
                    [id |-> id, classe_id |-> data.classe_id,
                     data |-> strptime(data.data).value,
                     total_biblia |-> GetOr(data, "total_biblia", 0),
                     total_present |-> GetOr(data, "total_present", 0),
                     total_absent |-> GetOr(data, "total_absent", 0),
                     total_visitors |-> GetOr(data, "total_visitors", 0),
                     total_general |-> GetOr(data, "total_general", 0),
                     presencas |-> GetOr(data, "presencas", PresencaList(<<>>)),
                     updated_at |-> clock] IN
            /\ RowsLeft
            /\ freqSeq' = id
            /\ IF FrequenciaConstraintsOk(nova_frequencia)
                 THEN /\ frequencias' = frequencias \cup {nova_frequencia}
                      /\ last' = Resp("registrar_frequencia", 201, "",
                                      {FrequenciaToDict(nova_frequencia)}, "none", id, Keys(data))
               ELSE /\ frequencias' = frequencias
                    /\ last' = Resp("registrar_frequencia", 500, ServerError, {}, "none", 0,
                                    Keys(data))
    /\ UNCHANGED <<authVars, clock, classes, classeSeq, audit, alunos, alunoSeq>>

\* lines 316-317: assigned before the date is parsed
FrequenciaAssignBefore(frequencia, data) ==
    IF In("classe_id", data) THEN [frequencia EXCEPT !.classe_id = data.classe_id]
    ELSE frequencia

\* lines 318-334, once the date has parsed
FrequenciaAssignRest(frequencia, data) ==
    [frequencia EXCEPT
       !.data = IF In("data", data) THEN strptime(data.data).value ELSE @,
       !.total_biblia = GetOr(data, "total_biblia", @),
       !.total_present = GetOr(data, "total_present", @),
       !.total_absent = GetOr(data, "total_absent", @),
       !.total_visitors = GetOr(data, "total_visitors", @),
       !.total_general = GetOr(data, "total_general", @),
       !.presencas = GetOr(data, "presencas", @)]

\* PUT /frequencias/<id>, lines 313-336
AtualizarFrequencia(tk, id, data) ==
    /\ IF ~jwt_required(tk, clock).ok
         THEN /\ last' = Reject("atualizar_frequencia", tk, id, Keys(data))
              /\ UNCHANGED frequencias
       ELSE IF FrequenciaById(id) = {}
         THEN /\ last' = Resp("atualizar_frequencia", 404, NotFound, {}, "none", id, Keys(data))
              /\ UNCHANGED frequencias
       ELSE IF ~IsObject(data)
         THEN /\ last' = Resp("atualizar_frequencia", 500, ServerError, {}, "none", id,
                              Keys(data))
              /\ UNCHANGED frequencias
       ELSE LET frequencia == CHOOSE f \in FrequenciaById(id) : TRUE
                before == FrequenciaAssignBefore(frequencia, data) IN
            IF In("data", data) /\ ~strptime(data.data).ok
              THEN \* line 322 returns without a commit
                   /\ frequencias' =
                          (frequencias \ {frequencia}) \cup {SessionRemove(frequencia, before)}
                   /\ last' = Resp("atualizar_frequencia", 400, DateError, {}, "none", id,
                                   Keys(data))
            ELSE LET dirty == FrequenciaAssignRest(before, data)
                     row == Stamp(frequencia, dirty, clock) IN
                 IF FrequenciaConstraintsOk(row)
                   THEN /\ frequencias' = (frequencias \ {frequencia}) \cup {row}
                        /\ last' = Resp("atualizar_frequencia", 200, "",
                                        {FrequenciaToDict(row)}, "none", id, Keys(data))
                 ELSE /\ frequencias' =
                             (frequencias \ {frequencia}) \cup {SessionRemove(frequencia, dirty)}
                      /\ last' = Resp("atualizar_frequencia", 500, ServerError, {}, "none", id,
                                      Keys(data))
    /\ UNCHANGED <<authVars, clock, classes, classeSeq, audit, alunos, alunoSeq, freqSeq>>

\* DELETE /frequencias/<id>, lines 340-344
DeletarFrequencia(tk, id) ==
    /\ IF ~jwt_required(tk, clock).ok
         THEN /\ last' = Reject("deletar_frequencia", tk, id, {})
              /\ UNCHANGED frequencias
       ELSE IF FrequenciaById(id) = {}
         THEN /\ last' = Resp("deletar_frequencia", 404, NotFound, {}, "none", id, {})
              /\ UNCHANGED frequencias
       ELSE /\ frequencias' = SessionDelete(frequencias, FrequenciaById(id))
            /\ last' = Resp("deletar_frequencia", 200, "Frequencia deletada", {}, "none", id,
                            {})
    /\ UNCHANGED <<authVars, clock, classes, classeSeq, audit, alunos, alunoSeq, freqSeq>>

FrequenciaBody(has, classe_id, data, total, presencas) ==
    [kind |-> "object", has |-> has,
     classe_id |-> IF "classe_id" \in has THEN classe_id ELSE 0,
     data |-> IF "data" \in has THEN data ELSE NoText,
     total_biblia |-> IF "total_biblia" \in has THEN total ELSE 0,
     total_present |-> IF "total_present" \in has THEN total ELSE 0,
     total_absent |-> IF "total_absent" \in has THEN total ELSE 0,
     total_visitors |-> IF "total_visitors" \in has THEN total ELSE 0,
     total_general |-> IF "total_general" \in has THEN total ELSE 0,
     presencas |-> IF "presencas" \in has THEN presencas ELSE PresencaList(<<>>)]

(***************************************************************************)
(* Reports, lines 348-399                                                  *)
(***************************************************************************)
\* GET /relatorios/semanal, lines 350-359; an absent argument is None, which
\* strptime refuses with a TypeError the handler catches
RelatorioSemanal(tk, data_inicio, data_fim) ==
    /\ IF ~jwt_required(tk, clock).ok
         THEN last' = Reject("relatorio_semanal", tk, 0, {})
       ELSE IF ~strptime(data_inicio).ok \/ ~strptime(data_fim).ok
         THEN last' = Resp("relatorio_semanal", 400, DateError, {}, "none", 0, {})
       ELSE LET start_date == strptime(data_inicio).value
                end_date == strptime(data_fim).value IN
            last' = Resp("relatorio_semanal", 200, "",
                         {FrequenciaToDict(f) : f \in
                            {g \in frequencias :
                               DateLeq(start_date, g.data) /\ DateLeq(g.data, end_date)}},
                         "none", 0, {})
    /\ UNCHANGED <<authVars, clock, domainVars>>

\* a query argument: absent, or a text that int() accepts or refuses
Arg(kind, n) == [kind |-> kind, n |-> n]

\* GET /relatorios/mensal, lines 363-372
RelatorioMensal(tk, mes, ano) ==
    /\ IF ~jwt_required(tk, clock).ok
         THEN last' = Reject("relatorio_mensal", tk, 0, {})
       ELSE IF mes.kind = "absent" \/ ano.kind = "absent"
         THEN last' = Resp("relatorio_mensal", 400, "Parametros mes e ano sao obrigatorios",
                           {}, "none", 0, {})
       ELSE IF mes.kind # "digits" \/ ano.kind # "digits"
         THEN \* int() raises ValueError
              last' = Resp("relatorio_mensal", 500, ServerError, {}, "none", 0, {})
       ELSE last' = Resp("relatorio_mensal", 200, "",
                         {FrequenciaToDict(f) : f \in
                            {g \in frequencias : g.data.m = mes.n /\ g.data.y = ano.n}},
                         "none", 0, {})
    /\ UNCHANGED <<authVars, clock, domainVars>>

\* GET /aniversariantes, lines 378-384; hoje is the date of datetime.utcnow()
ListarAniversariantes(tk, hoje) ==
    /\ IF ~jwt_required(tk, clock).ok
         THEN last' = Reject("listar_aniversariantes", tk, 0, {})
       ELSE last' = Resp("listar_aniversariantes", 200, "",
                         {AlunoToDict(a) : a \in
                            {b \in alunos : b.data_nascimento.m = hoje.m
                                            /\ b.data_nascimento.d = hoje.d}},
                         "none", 0, {})
    /\ UNCHANGED <<authVars, clock, domainVars>>

\* faulty variant: the loop is not left at the first entry, the last one wins
RECURSIVE ScanPresencasLast(_, _, _)
ScanPresencasLast(items, aluno_id, i) ==
    IF i > Len(items) THEN <<>>
    ELSE LET rest == ScanPresencasLast(items, aluno_id, i + 1) IN
         IF Len(rest) > 0 THEN rest
         ELSE IF items[i].has_id /\ items[i].aluno_id = aluno_id THEN <<items[i]>>
         ELSE <<>>

\* lines 393-398: the inner loop, left at the first entry of the student;
\* presenca.get('aluno_id') is None for an entry without the key
RECURSIVE ScanPresencas(_, _, _)
ScanPresencas(items, aluno_id, i) ==
    IF i > Len(items) THEN <<>>
    ELSE IF items[i].has_id /\ items[i].aluno_id = aluno_id THEN <<items[i]>>
    ELSE ScanPresencas(items, aluno_id, i + 1)

\* line 392: a list that is not empty
Scannable(presencas) == presencas.kind = "list" /\ Len(presencas.items) > 0

\* lines 389-398: the outer loop over the fetched records
RECURSIVE Historico(_, _)
Historico(fetched, aluno_id) ==
    IF fetched = <<>> THEN <<>>
    ELSE LET freq == Head(fetched)
             found == IF Scannable(freq.presencas)
                        THEN ScanPresencas(freq.presencas.items, aluno_id, 1)
                        ELSE <<>> IN
         (IF Len(found) > 0
            THEN <<[record |-> FrequenciaToDict(freq), presenca |-> found[1]]>>
            ELSE <<>>)
         \o Historico(Tail(fetched), aluno_id)

\* GET /alunos/<id>/historico, lines 388-399
HistoricoFrequencia(tk, aluno_id) ==
    /\ IF ~jwt_required(tk, clock).ok
         THEN last' = Reject("historico_frequencia", tk, aluno_id, {})
       ELSE \E fetched \in Orderings(frequencias) :
              last' = [Resp("historico_frequencia", 200, "", {}, "none", aluno_id, {})
                         EXCEPT !.fetched = fetched, !.list = Historico(fetched, aluno_id)]
    /\ UNCHANGED <<authVars, clock, domainVars>>


(***************************************************************************)
(* The requests the model issues.                                          *)
(***************************************************************************)
Credentials == [username : {"", "ana", "bob"}, password : {"", "pw", "other"}]

NextAuth ==
    \/ Tick
    \/ \E w \in Workers, data \in Credentials : RegisterBegin(w, data)
    \/ \E w \in Workers : RegisterEnd(w)
    \/ \E data \in Credentials : Login(data)
    \/ \E tk \in Presentable : Protected(tk)

\* Registration, login and the identity echo, with two workers.
SpecAuth == Init /\ [][NextAuth]_vars

(***************************************************************************)
(* C2: no two stored credentials share a username, and a register call     *)
(* with both fields given either stores the credential and answers 201 or  *)
(* answers 400 "username exists" for a username that is stored (as the     *)
(* claim states it).                                                       *)
(***************************************************************************)
C2_RegisterUniqueOr400 ==
    /\ \A u1, u2 \in users : u1.username = u2.username => u1 = u2
    /\ (last.op = "register" /\ last.msg # "Username e password sao obrigatorios") =>
          \/ /\ last.status = 201
             /\ \E u \in users : u.id = last.id /\ {u.username} = last.has
          \/ /\ last.status = 400
             /\ last.msg = "Username ja existe"
             /\ \E u \in users : {u.username} = last.has

(***************************************************************************)
(* C3: a token a login issued for identity X at time t verifies to X at    *)
(* every time before t + 1 hour and is rejected as expired at every time   *)
(* after t + 1 hour, whatever happened in between.                         *)
(***************************************************************************)
C3_TokenValidForOneHour ==
    \A i \in issued :
       /\ clock < i.at + ExpiresDelta =>
             /\ jwt_required(i.token, clock).ok
             /\ jwt_required(i.token, clock).identity = i.identity
       /\ clock > i.at + ExpiresDelta =>
             /\ ~jwt_required(i.token, clock).ok
             /\ jwt_required(i.token, clock).status = 401
             /\ jwt_required(i.token, clock).msg = "Token has expired"

\* a token outlived a later registration and was then presented after its expiry
C3_Witness ==
    /\ last.op = "protected"
    /\ last.fault = "expired"
    /\ \E i \in issued : clock > i.at + ExpiresDelta /\ \E u \in users : u.id > i.identity


(***************************************************************************)
(* Specifications of the domain routes.  They start where one client has   *)
(* registered and logged in at time 0, a state SpecAuth reaches.           *)
(***************************************************************************)
Ana == [username |-> "ana", password |-> "pw"]

InitSession ==
    /\ users = {[id |-> 1, username |-> Ana.username,
                 password_hash |-> generate_password_hash(Ana.password)]}
    /\ userSeq = 1
    /\ inflight = [w \in Workers |-> Idle]
    /\ issued = {[token |-> create_access_token(1, 0), identity |-> 1, at |-> 0]}
    /\ clock = 0
    /\ classes = {}
    /\ classeSeq = 0
    /\ alunos = {}
    /\ alunoSeq = 0
    /\ frequencias = {}
    /\ freqSeq = 0
    /\ audit = [created |-> {}, deleted |-> {}]
    /\ last = Resp("login", 200, "access_token", {}, "none", 1, {})

Ids == {1, 2}

ClasseSamples ==
    {ClasseBody({"nome", "professor"}, "Kids A", "Maria"),
     ClasseBody({"nome", "professor"}, "Kids B", "Maria"),
     ClasseBody({"nome", "professor"}, "", "Maria"),
     ClasseBody({"nome"}, "Kids A", Filler),
     ClasseBody({"professor"}, Filler, "Joao"),
     ClasseBody({}, Filler, Filler),
     NonObject}

NextClasse ==
    \/ Tick
    \/ \E tk \in Presentable : ListarClasses(tk)
    \/ \E tk \in Presentable, data \in ClasseSamples : CriarClasse(tk, data)
    \/ \E tk \in Presentable, id \in Ids, data \in ClasseSamples : AtualizarClasse(tk, id, data)
    \/ \E tk \in Presentable, id \in Ids : DeletarClasse(tk, id)

SpecClasse == InitSession /\ [][NextClasse]_vars


Tables == <<users, userSeq, classes, classeSeq, alunos, alunoSeq, frequencias, freqSeq>>

(***************************************************************************)
(* C1: a request to a protected route whose token is missing, malformed,   *)
(* wrongly signed or expired is answered 401, returns no stored data and   *)
(* leaves the store unchanged (as the claim states it).                    *)
(***************************************************************************)
C1_BadTokenIs401 ==
    [][last'.fault # "none" =>
          /\ last'.status = 401
          /\ last'.rows = {}
          /\ UNCHANGED Tables]_vars

(***************************************************************************)
(* C7: every authenticated request ends 200, 201, 400, 401 or 404 (as the  *)
(* claim states it).                                                       *)
(***************************************************************************)
DocumentedStatus == {200, 201, 400, 401, 404}

ProtectedOps ==
    {"protected", "listar_classes", "criar_classe", "atualizar_classe", "deletar_classe",
     "listar_alunos", "criar_aluno", "atualizar_aluno", "deletar_aluno",
     "listar_frequencias", "registrar_frequencia", "atualizar_frequencia",
     "deletar_frequencia", "relatorio_semanal", "relatorio_mensal",
     "listar_aniversariantes", "historico_frequencia"}

C7_OnlyDocumentedStatus ==
    (last.op \in ProtectedOps /\ last.fault = "none") => last.status \in DocumentedStatus

(***************************************************************************)
(* C10: a class POST /classes created (201) is in the result of every GET  *)
(* /classes until a DELETE of its id succeeds and in none afterwards; PUT  *)
(* and DELETE on an id that does not exist answer 404 and change nothing.  *)
(***************************************************************************)
C10_Listed ==
    /\ (last.op = "criar_classe" /\ last.status = 201) =>
          /\ last.id \in audit.created
          /\ last.rows = {ClasseToDict(c) : c \in ClasseById(last.id)}
          /\ last.rows # {}
    /\ (last.op = "listar_classes" /\ last.status = 200) =>
          \A id \in audit.created :
             IF id \in audit.deleted
               THEN \A r \in last.rows : r.id # id
               ELSE \E r \in last.rows : r.id = id

C10_Missing404 ==
    (/\ last'.op \in {"atualizar_classe", "deletar_classe"}
     /\ last'.fault = "none"
     /\ ClasseById(last'.id) = {}) =>
        /\ last'.status = 404
        /\ UNCHANGED Tables

C10_ClassLifecycle == [](C10_Listed) /\ [][C10_Missing404]_vars

\* a class was created, listed, deleted, and the list asked for again
C10_Witness ==
    /\ last.op = "listar_classes"
    /\ last.status = 200
    /\ audit.deleted # {}
    /\ audit.created \ audit.deleted # {}


D1 == DateText(IsoLayout, 2024, 3, 10)
D2 == DateText(IsoLayout, 2023, 3, 17)
BadLayout == DateText("%d/%m/%Y", 2024, 3, 10)
BadDay == DateText(IsoLayout, 2023, 2, 29)

P1a == Presenca(TRUE, 1, "sim")
P1b == Presenca(TRUE, 1, "nao")
P2 == Presenca(TRUE, 2, "sim")
Px == Presenca(FALSE, 0, "sim")

Clients == {NoToken} \cup {i.token : i \in issued}

(***************************************************************************)
(* SpecCreate: the three create routes, with bodies that lack fields.      *)
(***************************************************************************)
CreateAlunoSamples ==
    {AlunoBody({"nome", "data_nascimento", "classe_id"}, "Davi", D1, 1, Filler),
     AlunoBody({"nome", "data_nascimento", "classe_id", "status"}, "Rute", D2, 2, "DESMATRICULADO"),
     AlunoBody({"nome", "data_nascimento", "classe_id"}, "Davi", BadLayout, 1, Filler),
     AlunoBody({"nome", "classe_id"}, "Davi", NoText, 1, Filler),
     AlunoBody({"nome", "data_nascimento"}, "Davi", D1, 0, Filler),
     AlunoBody({"data_nascimento", "classe_id", "status"}, Filler, D1, 1, "MATRICULADO"),
     AlunoBody({}, Filler, NoText, 0, Filler),
     NonObject}

CreateFrequenciaSamples ==
    {FrequenciaBody({"classe_id", "data"}, 1, D1, 0, PresencaDict),
     FrequenciaBody({"classe_id", "data", "total_present", "presencas"}, 2, D2, 5,
                    PresencaList(<<P1a>>)),
     FrequenciaBody({"classe_id", "data"}, 1, BadDay, 0, PresencaDict),
     FrequenciaBody({"classe_id", "total_present"}, 1, NoText, 5, PresencaDict),
     FrequenciaBody({"data", "presencas"}, 0, D1, 0, PresencaList(<<P1a>>)),
     FrequenciaBody({}, 0, NoText, 0, PresencaDict),
     NonObject}

NextCreate ==
    \/ Tick
    \/ \E tk \in Presentable, data \in ClasseSamples : CriarClasse(tk, data)
    \/ \E tk \in Presentable, data \in CreateAlunoSamples : CriarAluno(tk, data)
    \/ \E tk \in Presentable, data \in CreateFrequenciaSamples : RegistrarFrequencia(tk, data)

SpecCreate == InitSession /\ [][NextCreate]_vars

(***************************************************************************)
(* C5: a create call whose JSON object lacks a required field (Class:      *)
(* nome, professor; Student: nome, data_nascimento, classe_id; Attendance- *)
(* Record: classe_id, data) is answered 400 and the persisted entities are *)
(* the same after it as before.                                            *)
(***************************************************************************)
C5_Lacks(op, has) ==
    /\ NotAnObject \notin has
    /\ \/ op = "criar_classe" /\ ~({"nome", "professor"} \subseteq has)
       \/ op = "criar_aluno" /\ ~({"nome", "data_nascimento", "classe_id"} \subseteq has)
       \/ op = "registrar_frequencia" /\ ~({"classe_id", "data"} \subseteq has)

C5_MissingFieldIs400 ==
    [][(last'.fault = "none" /\ C5_Lacks(last'.op, last'.has)) =>
          /\ last'.status = 400
          /\ UNCHANGED Tables]_vars

\* a student without a birth date was refused while a class was stored
C5_Witness ==
    /\ last.op = "criar_aluno"
    /\ last.status = 400
    /\ last.has = {"nome", "classe_id"}
    /\ classes # {}

(***************************************************************************)
(* SpecUpdate: the three update routes with partial bodies, over entities  *)
(* created from one body each.                                             *)
(***************************************************************************)
SeedClasse == ClasseBody({"nome", "professor"}, "Kids A", "Maria")

SeedClasses == {SeedClasse, ClasseBody({"nome", "professor"}, "Kids B", "Maria")}

SeedAlunos == {AlunoBody({"nome", "data_nascimento", "classe_id"}, "Davi", D1, 1, Filler)}

SeedFrequencias == {FrequenciaBody({"classe_id", "data"}, 1, D1, 0, PresencaDict)}

UpdateClasseSamples ==
    {ClasseBody({"nome"}, "Kids B", Filler),
     ClasseBody({"professor"}, Filler, "Joao"),
     ClasseBody({}, Filler, Filler)}

PartialClasseSamples ==
    {ClasseBody({"professor"}, Filler, "Joao"), ClasseBody({}, Filler, Filler)}

UpdateAlunoSamples ==
    {AlunoBody({"nome"}, "Rute", NoText, 0, Filler),
     AlunoBody({"nome", "data_nascimento"}, "Rute", BadLayout, 0, Filler),
     AlunoBody({"data_nascimento", "status"}, Filler, D2, 0, "DESMATRICULADO"),
     AlunoBody({}, Filler, NoText, 0, Filler)}

UpdateFrequenciaSamples ==
    {FrequenciaBody({"classe_id", "data"}, 2, BadDay, 0, PresencaDict),
     FrequenciaBody({"total_present", "presencas"}, 0, NoText, 5, PresencaList(<<P1a>>)),
     FrequenciaBody({}, 0, NoText, 0, PresencaDict)}

NextUpdate ==
    \/ Tick
    \/ \E tk \in Clients : CriarClasse(tk, SeedClasse)
    \/ \E tk \in Clients, data \in SeedAlunos : CriarAluno(tk, data)
    \/ \E tk \in Clients, data \in SeedFrequencias : RegistrarFrequencia(tk, data)
    \/ \E tk \in Clients, id \in Ids, data \in PartialClasseSamples :
          AtualizarClasse(tk, id, data)
    \/ \E tk \in Clients, id \in Ids, data \in UpdateAlunoSamples : AtualizarAluno(tk, id, data)
    \/ \E tk \in Clients, id \in Ids, data \in UpdateFrequenciaSamples :
          AtualizarFrequencia(tk, id, data)

SpecUpdate == InitSession /\ [][NextUpdate]_vars

\* The update of row `id` of `table` kept every field outside `has` and
\* `exempt`, and every other row.
FrameKept(table, table2, id, has, exempt) ==
    \E r \in table, r2 \in table2 :
       /\ r.id = id
       /\ r2.id = id
       /\ \A f \in (DOMAIN r) \ (has \cup exempt) : r2[f] = r[f]
       /\ has = {} => r2 = r
       /\ table2 \ {r2} = table \ {r}

UpdateFrame(exempt) ==
    /\ (last'.op = "atualizar_classe" /\ last'.status = 200) =>
          /\ FrameKept(classes, classes', last'.id, last'.has, exempt)
          /\ UNCHANGED <<users, alunos, frequencias>>
    /\ (last'.op = "atualizar_aluno" /\ last'.status = 200) =>
          /\ FrameKept(alunos, alunos', last'.id, last'.has, exempt)
          /\ UNCHANGED <<users, classes, frequencias>>
    /\ (last'.op = "atualizar_frequencia" /\ last'.status = 200) =>
          /\ FrameKept(frequencias, frequencias', last'.id, last'.has, exempt)
          /\ UNCHANGED <<users, classes, alunos>>

C6_RefusedUpdateWritesNothing ==
    [][(last'.op \in {"atualizar_aluno", "atualizar_frequencia"} /\ last'.status = 400) =>
          UNCHANGED Tables]_vars

\* the refused request had assigned the name before the date failed to parse
C6_Witness ==
    /\ last.op = "atualizar_aluno"
    /\ last.status = 400
    /\ "nome" \in last.has
    /\ \E a \in alunos : a.id = last.id /\ a.nome = "Davi"


(***************************************************************************)
(* SpecRefs: create, update and delete of the three entities, with class   *)
(* references that do and do not name a stored class.                      *)
(***************************************************************************)
RefAlunoSamples ==
    {AlunoBody({"nome", "data_nascimento", "classe_id"}, "Davi", D1, 1, Filler),
     AlunoBody({"nome", "data_nascimento", "classe_id"}, "Davi", D1, 2, Filler),
     AlunoBody({"classe_id"}, Filler, NoText, 1, Filler),
     AlunoBody({"classe_id"}, Filler, NoText, 2, Filler),
     AlunoBody({"classe_id", "status"}, Filler, NoText, 2, "TRANCADO")}

RefFrequenciaSamples ==
    {FrequenciaBody({"classe_id", "data"}, 1, D1, 0, PresencaDict),
     FrequenciaBody({"classe_id"}, 2, NoText, 0, PresencaDict)}

NextRefs ==
    \/ \E tk \in Clients, data \in SeedClasses : CriarClasse(tk, data)
    \/ \E tk \in Clients, id \in Ids, data \in UpdateClasseSamples : AtualizarClasse(tk, id, data)
    \/ \E tk \in Clients, id \in Ids : DeletarClasse(tk, id)
    \/ \E tk \in Clients, data \in RefAlunoSamples : CriarAluno(tk, data)
    \/ \E tk \in Clients, id \in Ids, data \in RefAlunoSamples : AtualizarAluno(tk, id, data)
    \/ \E tk \in Clients, id \in Ids : DeletarAluno(tk, id)
    \/ \E tk \in Clients, data \in RefFrequenciaSamples : RegistrarFrequencia(tk, data)
    \/ \E tk \in Clients, id \in Ids, data \in RefFrequenciaSamples :
          AtualizarFrequencia(tk, id, data)
    \/ \E tk \in Clients, id \in Ids : DeletarFrequencia(tk, id)

SpecRefs == InitSession /\ [][NextRefs]_vars

(***************************************************************************)
(* C8: every stored Student's class reference names a Class that is        *)
(* stored, also after the delete of a Class that has Students was asked    *)
(* for and after a Student's class reference was updated.                  *)
(***************************************************************************)
C8_StudentClassExists == \A a \in alunos : \E c \in classes : c.id = a.classe_id

\* the delete of a class that has a student was asked for
C8_Witness ==
    /\ last.op = "deletar_classe"
    /\ last.fault = "none"
    /\ \E a \in alunos : a.classe_id = last.id

(***************************************************************************)
(* SpecHistorico: attendance records with logs, and the student history.   *)
(***************************************************************************)
HistoricoSamples ==
    {FrequenciaBody({"classe_id", "data"}, 1, D1, 0, PresencaDict),
     FrequenciaBody({"classe_id", "data", "presencas"}, 1, D1, 0, PresencaDict),
     FrequenciaBody({"classe_id", "data", "presencas"}, 1, D1, 0, PresencaList(<<P1a, P1b>>)),
     FrequenciaBody({"classe_id", "data", "presencas"}, 1, D2, 0, PresencaList(<<P2, Px, P1b>>)),
     FrequenciaBody({"presencas"}, 0, NoText, 0, PresencaList(<<Px, P2, P1b, P1a>>)),
     FrequenciaBody({"presencas"}, 0, NoText, 0, PresencaList(<<P2>>))}

NextHistorico ==
    \/ \E tk \in Clients, data \in SeedClasses : CriarClasse(tk, data)
    \/ \E tk \in Clients, data \in HistoricoSamples : RegistrarFrequencia(tk, data)
    \/ \E tk \in Clients, id \in Ids, data \in HistoricoSamples :
          AtualizarFrequencia(tk, id, data)
    \/ \E tk \in Clients, id \in Ids : DeletarFrequencia(tk, id)
    \/ \E tk \in Clients, id \in Ids : HistoricoFrequencia(tk, id)

SpecHistorico == InitSession /\ [][NextHistorico]_vars

\* the entries of the student in the log of a record, by position
C9_Entries(f, s) ==
    IF f.presencas.kind = "list"
      THEN {j \in 1..Len(f.presencas.items) :
              f.presencas.items[j].has_id /\ f.presencas.items[j].aluno_id = s}
      ELSE {}

C9_First(f, s) == CHOOSE j \in C9_Entries(f, s) : \A k \in C9_Entries(f, s) : j <= k

(***************************************************************************)
(* C9: the history of student s holds, in the order of the records, one    *)
(* item for each record whose log is a list with an entry of s, and none   *)
(* for any other record; each item pairs the record with the first such    *)
(* entry of its log.                                                       *)
(***************************************************************************)
C9_HistoryIsFirstMatchPerRecord ==
    (last.op = "historico_frequencia" /\ last.status = 200) =>
        LET with == {i \in 1..Len(last.fetched) : C9_Entries(last.fetched[i], last.id) # {}} IN
        /\ Len(last.list) = Cardinality(with)
        /\ \E g \in [1..Len(last.list) -> with] :
              /\ \A k, l \in 1..Len(last.list) : k < l => g[k] < g[l]
              /\ \A k \in 1..Len(last.list) :
                    LET f == last.fetched[g[k]] IN
                    /\ last.list[k].record = FrequenciaToDict(f)
                    /\ last.list[k].presenca = f.presencas.items[C9_First(f, last.id)]

\* two records matched, one of them with two entries of the student
C9_Witness ==
    /\ last.op = "historico_frequencia"
    /\ Len(last.list) = 2
    /\ \E i \in 1..Len(last.fetched) : Cardinality(C9_Entries(last.fetched[i], last.id)) = 2


(***************************************************************************)
(* Spec: every route, from the empty store; one client registers and logs  *)
(* in, and every protected route is asked for with every kind of token.    *)
(***************************************************************************)
MensalQueries ==
    {<<Arg("absent", 0), Arg("digits", 2024)>>,
     <<Arg("text", 0), Arg("digits", 2024)>>,
     <<Arg("digits", 3), Arg("digits", 2024)>>}

SemanalQueries == {<<NoText, D1>>, <<D2, BadLayout>>, <<D2, D1>>}

Hoje == {[y |-> 2026, m |-> 3, d |-> 10], [y |-> 2026, m |-> 3, d |-> 11]}

AnyAlunoSamples ==
    {AlunoBody({"nome", "data_nascimento"}, "Rute", BadLayout, 0, Filler),
     AlunoBody({"classe_id", "status"}, Filler, NoText, 2, "TRANCADO")}

AnyFrequenciaSamples ==
    {FrequenciaBody({"classe_id", "data"}, 2, BadDay, 0, PresencaDict),
     FrequenciaBody({"presencas"}, 0, NoText, 0, PresencaList(<<P1a, P1b>>))}

Next ==
    \/ Tick
    \/ RegisterBegin(1, Ana)
    \/ RegisterEnd(1)
    \/ Login(Ana)
    \/ \E tk \in Presentable : Protected(tk)
    \/ \E tk \in Presentable : ListarClasses(tk)
    \/ \E tk \in Presentable, data \in SeedClasses : CriarClasse(tk, data)
    \/ \E tk \in Presentable, id \in Ids, data \in {ClasseBody({"nome"}, "Kids B", Filler)} :
          AtualizarClasse(tk, id, data)
    \/ \E tk \in Presentable, id \in Ids : DeletarClasse(tk, id)
    \/ \E tk \in Presentable : ListarAlunos(tk)
    \/ \E tk \in Presentable, data \in SeedAlunos : CriarAluno(tk, data)
    \/ \E tk \in Presentable, id \in Ids, data \in AnyAlunoSamples : AtualizarAluno(tk, id, data)
    \/ \E tk \in Presentable, id \in Ids : DeletarAluno(tk, id)
    \/ \E tk \in Presentable : ListarFrequencias(tk)
    \/ \E tk \in Presentable, data \in SeedFrequencias : RegistrarFrequencia(tk, data)
    \/ \E tk \in Presentable, id \in Ids, data \in AnyFrequenciaSamples :
          AtualizarFrequencia(tk, id, data)
    \/ \E tk \in Presentable, id \in Ids : DeletarFrequencia(tk, id)
    \/ \E tk \in Presentable, q \in SemanalQueries : RelatorioSemanal(tk, q[1], q[2])
    \/ \E tk \in Presentable, q \in MensalQueries : RelatorioMensal(tk, q[1], q[2])
    \/ \E tk \in Presentable, hoje \in Hoje : ListarAniversariantes(tk, hoje)
    \/ \E tk \in Presentable, id \in Ids : HistoricoFrequencia(tk, id)

Spec == Init /\ [][Next]_vars

====
